---- MODULE Spec2Model ----
(***************************************************************************)
(* Model of anvil/chunk.py: the read-only chunk decoder (Chunk.__init__,   *)
(* get_section, get_block, stream_blocks) over the format eras selected by *)
(* the chunk's data version.                                               *)
(*                                                                         *)
(* Python integers are unbounded.  A non-negative integer is modelled as   *)
(* its sequence of binary digits, least significant first, so that 64-bit  *)
(* words, shifts, masks and ors are computed exactly.  A word of the long  *)
(* array is a Python int of either sign: [neg, mag], mag the binary digits *)
(* of its absolute value.                                                  *)
(***************************************************************************)
EXTENDS Integers, Sequences, FiniteSets, TLC

(* ------------------------- program constants --------------------------- *)

VERSION_21w43a == 2844
VERSION_21w39a == 2836
VERSION_20w17a == 2529
VERSION_17w47a == 1451

\* self.version = None (no DataVersion tag); real data versions start at 100
NoVersion == -1

\* width of one element of the BlockStates long array
WordBits == 64

\* blocks of one section, 16 * 16 * 16
SectionBlocks == 4096

\* "Cannot be lower than 4"
MinBits == 4

(* ------------------------------ bounds --------------------------------- *)

\* index patterns the packed sections are filled with: 1..NumPatterns
NumPatterns == 2

\* the largest section index tried at the entry points
MaxSection == 17

(* --------------------- unbounded naturals as digits -------------------- *)

Max(a, b) == IF a >= b THEN a ELSE b

RECURSIVE Pow2(_)
Pow2(n) == IF n = 0 THEN 1 ELSE 2 * Pow2(n - 1)

\* int.bit_length() of a small integer (of its absolute value)
RECURSIVE BitLength(_)
BitLength(n) ==
    IF n < 0 THEN BitLength(-n)
    ELSE IF n = 0 THEN 0 ELSE 1 + BitLength(n \div 2)

\* digit k (from 0) of the small natural n
BitOf(n, k) == (n \div Pow2(k)) % 2

\* the sequence <<e(1), ..., e(n)>> of a function on 1..n, its elements
\* computed once
Digits(f, n) == SubSeq(f, 1, n)

\* digit k (from 0) of a digit sequence, 0 beyond its length
Digit(d, k) == IF k + 1 <= Len(d) THEN d[k + 1] ELSE 0

\* d >> k
ShiftRight(d, k) == IF k >= Len(d) THEN <<>> ELSE SubSeq(d, k + 1, Len(d))

\* d << k
ShiftLeft(d, k) ==
    Digits([j \in 1..(Len(d) + k) |-> IF j <= k THEN 0 ELSE d[j - k]], Len(d) + k)

\* a | b
BitOr(a, b) ==
    LET n == Max(Len(a), Len(b))
    IN  Digits([j \in 1..n |->
                  IF Digit(a, j - 1) = 1 \/ Digit(b, j - 1) = 1 THEN 1 ELSE 0], n)

\* d & (2**n - 1)
LowBits(d, n) == Digits([j \in 1..n |-> Digit(d, j - 1)], n)

\* the value of a short digit sequence
RECURSIVE ToNat(_)
ToNat(d) == IF Len(d) = 0 THEN 0 ELSE d[1] + 2 * ToNat(Tail(d))

\* the 64 digits of m complemented
Complement(m) == Digits([j \in 1..WordBits |-> 1 - Digit(m, j - 1)], WordBits)

\* the place of the first 0 digit of d, WordBits + 1 when it has none
FirstZero(d) ==
    IF \A j \in 1..WordBits : d[j] = 1 THEN WordBits + 1
    ELSE CHOOSE j \in 1..WordBits : d[j] = 0 /\ \A k \in 1..(j - 1) : d[k] = 1

\* d + 1 over 64 digits, the carry running up to the first 0 digit, at stop
CarryTo(d, stop) ==
    Digits([j \in 1..WordBits |->
              IF j < stop THEN 0 ELSE IF j = stop THEN 1 ELSE d[j]], WordBits)

Increment(d) == CarryTo(d, FirstZero(d))

\* 2**64 - m for a word magnitude 0 < m <= 2**64: complement the 64 digits
\* and add one
Pow64Minus(m) == Increment(Complement(m))

bin_append(a, b, length) == BitOr(ShiftLeft(a, length), b)

nibbleOf(value, index) ==
    IF index % 2 = 1 THEN value \div 16 ELSE value % 16

(* ------------------------- outcomes and blocks ------------------------- *)

Raise(e) == [kind |-> "raise", exc |-> e]
None == [kind |-> "None"]
IsRaise(r) == r.kind = "raise"

\* Block.from_name('minecraft:air')
Air == [kind |-> "Block", id |-> 0]

\* Block.from_palette(tag): entry i of a palette names block i + 1, so that
\* no palette entry is air
from_palette(entry) == [kind |-> "Block", id |-> entry + 1]

OldBlock(id, data) == [kind |-> "OldBlock", id |-> id, data |-> data]

\* OldBlock.convert(): the fixed (id, data) table of block.py
convert(b) ==
    IF b.id = 0 THEN Air ELSE [kind |-> "Block", id |-> 1000 + 16 * b.id + b.data]

(* ----------------------------- the tag tree ---------------------------- *)
(* A section tag is [kind, Y, keys, bs, c]: keys the names of its child    *)
(* tags, bs the names inside its block_states compound, c the content the  *)
(* arrays are filled with.  The arrays themselves are read element by      *)
(* element through the operators below.                                    *)

IsLegacyEra(v) == v = NoVersion \/ v < VERSION_17w47a

\* bits of the file's writer: max(4, bit_length(P - 1))
PackBits(c) == Max(BitLength(c.P - 1), MinBits)

\* palette index stored for block i of a modern section
Idx(c, i) == (i * (2 * c.pat - 1) + (c.pat - 1)) % c.P

\* number of elements of the long array
NumWords(c) ==
    IF c.stretch THEN (SectionBlocks * PackBits(c)) \div WordBits
    ELSE LET per == WordBits \div PackBits(c)
         IN  (SectionBlocks + per - 1) \div per

\* digit j (from 0) of element w of the long array as the writer packs it
\* at width b: YZX order, least significant digit first; with stretching
\* the indices form one digit stream, without it each element holds whole
\* indices and zero padding above them
PackedDigit(c, b, w, j) ==
    IF c.stretch
    THEN LET pos == w * WordBits + j
         IN  BitOf(Idx(c, pos \div b), pos % b)
    ELSE LET per == WordBits \div b
             f == j \div b
             i == w * per + f
         IN  IF f < per /\ i < SectionBlocks THEN BitOf(Idx(c, i), j % b) ELSE 0

\* the 64 binary digits of element w
WordPattern(c, w) ==
    LET b == PackBits(c)
    IN  Digits([j \in 1..WordBits |-> PackedDigit(c, b, w, j - 1)], WordBits)

\* element w as the Python int the tag holds: a signed 64-bit value when
\* c.signed (negative when digit 63 is set), else the unsigned value
AsStored(u, signed) ==
    IF signed /\ u[WordBits] = 1
    THEN [neg |-> TRUE, mag |-> Pow64Minus(u)]
    ELSE [neg |-> FALSE, mag |-> u]

StatesAt(c, w) == AsStored(WordPattern(c, w), c.signed)

\* legacy arrays: Blocks (4096 bytes), Add and Data (2048 bytes each)
BlocksAt(c, i) == (i * (2 * c.pat - 1) + 7 * c.pat) % 256
AddAt(c, j) == (3 * j + c.pat) % 256
DataAt(c, j) == (5 * j + 11 * c.pat) % 256

\* the palette list tag's name inside the file of version v
PaletteName(v) == IF v >= VERSION_21w43a THEN "palette" ELSE "Palette"

\* the section a file of version v stores for content c at index y
SectionTag(v, c, y) ==
    [kind |-> "section", Y |-> y, c |-> c,
     keys |-> IF IsLegacyEra(v)
              THEN {"Y", "Blocks", "Data"} \cup (IF c.add THEN {"Add"} ELSE {})
              ELSE IF v >= VERSION_21w39a THEN {"Y", "block_states"}
              ELSE {"Y", "Palette", "BlockStates"},
     bs   |-> IF (~IsLegacyEra(v)) /\ v >= VERSION_21w39a
              THEN {PaletteName(v)} \cup (IF c.P > 1 THEN {"data"} ELSE {})
              ELSE {}]

\* a section tag holding nothing but its index
EmptySectionTag(c, y) ==
    [kind |-> "section", Y |-> y, c |-> c, keys |-> {"Y"}, bs |-> {}]

\* the compound holding the chunk's fields; its section list, when it has
\* one, holds section 0 (filled) and section 1 (empty)
LevelTag(n) ==
    LET v == n.version
        secs == IF v # NoVersion /\ v >= VERSION_21w43a THEN "sections" ELSE "Sections"
        tile == IF v # NoVersion /\ v >= VERSION_21w43a THEN "block_entities" ELSE "TileEntities"
    IN  [keys |-> {"xPos", "zPos", tile} \cup (IF n.hasSections THEN {secs} ELSE {}),
         sections |-> IF n.hasSections
                      THEN <<SectionTag(v, n.c, 0), EmptySectionTag(n.c, 1)>>
                      ELSE <<>>,
         xPos |-> 3, zPos |-> -2]

\* names of the root tag's children
RootKeys(n) ==
    IF n.version = NoVersion THEN {"Level"}
    ELSE IF n.version >= VERSION_21w43a THEN {"DataVersion"} \cup LevelTag(n).keys
    ELSE {"DataVersion", "Level"}

(* ------------------------ Python sequence access ----------------------- *)

\* seq[i] of a sequence of n elements is defined for -n <= i < n
InRange(n, i) == -n <= i /\ i < n

\* the element from 0 that seq[i] reads (a negative i counts from the end)
Norm(n, i) == IF i < 0 THEN i + n ELSE i

\* nibble(byte_array, index) of the 2048-byte Add or Data array
nibble(name, c, index) ==
    LET j == Norm(SectionBlocks \div 2, index \div 2)
        value == IF name = "Add" THEN AddAt(c, j) ELSE DataAt(c, j)
    IN  nibbleOf(value, index)

(* ---------------------------- Chunk.__init__ --------------------------- *)

OutOfBounds == "OutOfBoundsCoordinates"

NoData == [keys |-> {}, sections |-> <<>>, xPos |-> 0, zPos |-> 0]

Unbuilt ==
    [status |-> "unbuilt", exc |-> "", version |-> NoVersion, data |-> NoData,
     root |-> "", tile_entities |-> "", x |-> 0, z |-> 0]

Failed(e, v) == [Unbuilt EXCEPT !.status = "raised", !.exc = e, !.version = v]

\* Chunk(nbt_data)
ChunkInit(n) ==
    LET version == IF "DataVersion" \in RootKeys(n) THEN n.version ELSE NoVersion
        level == LevelTag(n)
    IN  IF version = NoVersion
        THEN Failed("TypeError", version)          \* None >= _VERSION_21w43a
        ELSE IF version >= VERSION_21w43a
        THEN IF "block_entities" \notin level.keys THEN Failed("KeyError", version)
             ELSE [status |-> "ok", exc |-> "", version |-> version, data |-> level,
                   root |-> "nbt_data", tile_entities |-> "block_entities",
                   x |-> level.xPos, z |-> level.zPos]
        ELSE IF "Level" \notin RootKeys(n) \/ "TileEntities" \notin level.keys
        THEN Failed("KeyError", version)
        ELSE [status |-> "ok", exc |-> "", version |-> version, data |-> level,
              root |-> "Level", tile_entities |-> "TileEntities",
              x |-> level.xPos, z |-> level.zPos]

(* ---------------------------- get_section ------------------------------ *)

\* for section in sections: if section['Y'].value == y: return section
RECURSIVE ScanSections(_, _)
ScanSections(sections, y) ==
    IF Len(sections) = 0 THEN None
    ELSE IF Head(sections).Y = y THEN Head(sections)
    ELSE ScanSections(Tail(sections), y)

\* get_section with the looser bound stream_blocks tests (section > 16)
get_section_to16(ch, y) ==
    IF y < 0 \/ y > 16 THEN Raise(OutOfBounds)
    ELSE IF ch.version = NoVersion THEN Raise("TypeError")
    ELSE LET tag == IF ch.version >= VERSION_21w43a THEN "sections" ELSE "Sections"
         IN  IF tag \notin ch.data.keys THEN None
             ELSE ScanSections(ch.data.sections, y)

\* get_section(y)
get_section(ch, y) ==
    IF y < 0 \/ y > 15 THEN Raise(OutOfBounds)
    ELSE IF ch.version = NoVersion THEN Raise("TypeError")
    ELSE LET tag == IF ch.version >= VERSION_21w43a THEN "sections" ELSE "Sections"
         IN  IF tag \notin ch.data.keys THEN None
             ELSE ScanSections(ch.data.sections, y)

(* ------------------------------ get_block ------------------------------ *)

\* a section argument or variable: None, an int, or a section tag
IntArg(i) == [kind |-> "int", i |-> i]
IsNone(s) == s.kind = "None"
IsInt(s) == s.kind = "int"

\* the word's magnitude, without the 2**64 correction of a negative word
ToUnsigned_abs(word) == word.mag

\* if data < 0: data += 2**64
ToUnsigned(word) == IF word.neg THEN Pow64Minus(word.mag) ELSE word.mag

\* the locals of get_block where it stops
NoLocals == [reached |-> FALSE, bits |-> 0, index |-> 0, state |-> 0, palette_id |-> 0]

Stop(r) == [res |-> r, loc |-> NoLocals]

\* the OldBlock at index of a pre-flattening section that has Blocks
LegacyBlock(section, index, force_new) ==
    IF ~InRange(SectionBlocks, index) THEN Raise("IndexError")
    ELSE IF "Data" \notin section.keys THEN Raise("KeyError")
    ELSE LET i == Norm(SectionBlocks, index)
             low == BlocksAt(section.c, i)
             block_id == IF "Add" \in section.keys
                         THEN low + nibble("Add", section.c, index) * 256
                         ELSE low
             block == OldBlock(block_id, nibble("Data", section.c, index))
         IN  IF force_new THEN convert(block) ELSE block

\* lines 265-304: the palette index of block index in the long array of
\* content c, read with width bits
ExtractPaletteId(c, bits, index, stretches) ==
    LET n == NumWords(c)
        per == WordBits \div bits
        state == IF stretches THEN (index * bits) \div WordBits ELSE index \div per
        offset == IF stretches THEN (bits * index) % WordBits ELSE (index % per) * bits
    IN  IF ~InRange(n, state) THEN [ok |-> FALSE, state |-> state, palette_id |-> 0]
        ELSE
        LET data == ToUnsigned(StatesAt(c, Norm(n, state)))
            shifted_data == ShiftRight(data, offset)
        IN  IF stretches /\ WordBits - offset < bits
            THEN IF ~InRange(n, state + 1)
                 THEN [ok |-> FALSE, state |-> state, palette_id |-> 0]
                 ELSE
                 LET next == ToUnsigned(StatesAt(c, Norm(n, state + 1)))
                     leftover == (bits - (((state + 1) * WordBits) % bits)) % bits
                     joined == bin_append(LowBits(next, leftover), shifted_data,
                                          bits - leftover)
                 IN  [ok |-> TRUE, state |-> state,
                      palette_id |-> ToNat(LowBits(joined, bits))]
            ELSE [ok |-> TRUE, state |-> state,
                  palette_id |-> ToNat(LowBits(shifted_data, bits))]

\* len(section[block_states_tag]): the elements of the BlockStates long
\* array, or the children of the block_states compound
BlockStatesLen(ch, section) ==
    IF ch.version >= VERSION_21w39a THEN Cardinality(section.bs)
    ELSE NumWords(section.c)

\* bits of get_block (line 243)
GetBlockBits(ch, section) ==
    Max(BitLength(BlockStatesLen(ch, section) - 1), MinBits)

\* get_block from line 207 on: section is None, an int or a tag, y is local
GetBlockIn(ch, x, y, z, section, force_new) ==
    IF ch.version = NoVersion \/ ch.version < VERSION_17w47a
    THEN IF IsNone(section) THEN Stop(IF force_new THEN Air ELSE OldBlock(0, 0))
         ELSE IF IsInt(section) THEN Stop(Raise("TypeError"))
         ELSE IF "Blocks" \notin section.keys
         THEN Stop(IF force_new THEN Air ELSE OldBlock(0, 0))
         ELSE Stop(LegacyBlock(section, y * 16 * 16 + z * 16 + x, force_new))
    ELSE
    LET renamed == ch.version >= VERSION_21w39a
        block_states_tag == IF renamed THEN "block_states" ELSE "BlockStates"
        palette_tag == IF ch.version >= VERSION_21w43a THEN "palette" ELSE "Palette"
    IN  IF renamed /\ (IsNone(section) \/ IsInt(section)) THEN Stop(Raise("TypeError"))
        ELSE IF renamed /\ block_states_tag \notin section.keys THEN Stop(Raise("KeyError"))
        ELSE IF IsNone(section) THEN Stop(Air)
        ELSE IF IsInt(section) THEN Stop(Raise("TypeError"))
        ELSE IF block_states_tag \notin section.keys THEN Stop(Air)
        ELSE
        LET bits == GetBlockBits(ch, section)
            index == y * 16 * 16 + z * 16 + x
            stretches == ch.version = NoVersion \/ ch.version < VERSION_20w17a
            e == ExtractPaletteId(section.c, bits, index, stretches)
            loc == [reached |-> e.ok, bits |-> bits, index |-> index,
                    state |-> e.state, palette_id |-> e.palette_id]
            has_palette == IF renamed THEN palette_tag \in section.bs
                           ELSE palette_tag \in section.keys
        IN  IF renamed /\ "data" \notin section.bs
            THEN [res |-> Air, loc |-> [NoLocals EXCEPT !.bits = bits, !.index = index]]
            ELSE IF ~e.ok THEN [res |-> Raise("IndexError"), loc |-> loc]
            ELSE IF ~has_palette THEN [res |-> Raise("KeyError"), loc |-> loc]
            ELSE IF e.palette_id >= section.c.P
            THEN [res |-> Raise("IndexError"), loc |-> loc]
            ELSE [res |-> from_palette(e.palette_id), loc |-> loc]

\* get_block(x, y, z, section, force_new)
get_block(ch, x, y, z, section, force_new) ==
    IF x < 0 \/ x > 15 THEN Stop(Raise(OutOfBounds))
    ELSE IF z < 0 \/ z > 15 THEN Stop(Raise(OutOfBounds))
    ELSE IF IsNone(section)
    THEN LET found == get_section(ch, y \div 16)
         IN  IF IsRaise(found) THEN Stop(found)
             ELSE GetBlockIn(ch, x, y % 16, z, found, force_new)
    ELSE GetBlockIn(ch, x, y, z, section, force_new)

(* ---------------------------- stream_blocks ---------------------------- *)
(* The generator's frame.  pc: "created" (called, not yet resumed), "air", *)
(* "legacy", "modern" (suspended at the yield of that loop), "done"        *)
(* (returned) or "raised".  out is the value of the last yield, count the  *)
(* number of values yielded so far.                                        *)

NoGen ==
    [pc |-> "idle", exc |-> "", arg |-> None, start |-> 0, force_new |-> FALSE,
     section |-> None, index |-> 0, i |-> 0, state |-> 0, data |-> <<>>,
     data_len |-> 0, bits |-> 0, stretches |-> FALSE, out |-> None, count |-> 0]

\* stream_blocks(index, section, force_new): the generator object
NewGen(index, section, force_new) ==
    [NoGen EXCEPT !.pc = "created", !.arg = section, !.start = index,
                  !.index = index, !.force_new = force_new]

GenRaise(g, e) == [g EXCEPT !.pc = "raised", !.exc = e]

Yield(g, pc, v) == [g EXCEPT !.pc = pc, !.out = v, !.count = g.count + 1]

\* for i in range(4096): yield air, entered with g.i the next i
AirLoop(g, air) ==
    IF g.i < SectionBlocks THEN Yield(g, "air", air) ELSE [g EXCEPT !.pc = "done"]

AirOf(g) == IF g.force_new THEN Air ELSE OldBlock(0, 0)

\* while index < 4096 of the pre-flattening branch (lines 357-371)
LegacyLoop(g) ==
    IF g.index < SectionBlocks
    THEN LET b == LegacyBlock(g.section, g.index, g.force_new)
         IN  IF IsRaise(b) THEN GenRaise(g, b.exc) ELSE Yield(g, "legacy", b)
    ELSE [g EXCEPT !.pc = "done"]

\* the loop with a refill that drops the pending fragment of a stretched
\* index instead of joining it below the new word
ModernLoop_drop(g) ==
    IF g.index >= SectionBlocks THEN [g EXCEPT !.pc = "done"]
    ELSE
    LET c == g.section.c
        refill == g.data_len < g.bits
        state == IF refill THEN g.state + 1 ELSE g.state
    IN  IF refill /\ ~InRange(NumWords(c), state) THEN GenRaise(g, "IndexError")
        ELSE
        LET new_data == ToUnsigned(StatesAt(c, Norm(NumWords(c), state)))
            data == IF ~refill THEN g.data
                    ELSE IF g.stretches THEN new_data
                    ELSE new_data
            data_len == IF ~refill THEN g.data_len
                        ELSE IF g.stretches THEN g.data_len + WordBits
                        ELSE WordBits
            palette_id == ToNat(LowBits(data, g.bits))
            h == [g EXCEPT !.state = state, !.data = data, !.data_len = data_len]
        IN  IF palette_id >= c.P THEN GenRaise(h, "IndexError")
            ELSE Yield(h, "modern", from_palette(palette_id))

\* while index < 4096 of lines 417-434, up to the yield
ModernLoop(g) ==
    IF g.index >= SectionBlocks THEN [g EXCEPT !.pc = "done"]
    ELSE
    LET c == g.section.c
        refill == g.data_len < g.bits
        state == IF refill THEN g.state + 1 ELSE g.state
    IN  IF refill /\ ~InRange(NumWords(c), state) THEN GenRaise(g, "IndexError")
        ELSE
        LET new_data == ToUnsigned(StatesAt(c, Norm(NumWords(c), state)))
            data == IF ~refill THEN g.data
                    ELSE IF g.stretches THEN bin_append(new_data, g.data, g.data_len)
                    ELSE new_data
            data_len == IF ~refill THEN g.data_len
                        ELSE IF g.stretches THEN g.data_len + WordBits
                        ELSE WordBits
            palette_id == ToNat(LowBits(data, g.bits))
            h == [g EXCEPT !.state = state, !.data = data, !.data_len = data_len]
        IN  IF palette_id >= c.P THEN GenRaise(h, "IndexError")
            ELSE Yield(h, "modern", from_palette(palette_id))

\* the first next(): lines 342-416, then the loop up to its first yield
GenFirst(ch, g) ==
    LET arg == g.arg IN
    IF IsInt(arg) /\ (arg.i < 0 \/ arg.i > 16) THEN GenRaise(g, OutOfBounds)
    ELSE
    LET section == IF IsNone(arg) THEN get_section(ch, 0)
                   ELSE IF IsInt(arg) THEN get_section(ch, arg.i)
                   ELSE arg
        h == [g EXCEPT !.section = section]
    IN
    IF IsRaise(section) THEN GenRaise(g, section.exc)
    ELSE IF ch.version = NoVersion THEN GenRaise(g, "TypeError")
    ELSE IF ch.version < VERSION_17w47a
    THEN IF IsNone(section) \/ "Blocks" \notin section.keys
         THEN AirLoop(h, AirOf(h))
         ELSE LegacyLoop(h)
    ELSE
    LET renamed == ch.version >= VERSION_21w39a
        block_states_tag == IF renamed THEN "block_states" ELSE "BlockStates"
        palette_tag == IF ch.version >= VERSION_21w43a THEN "palette" ELSE "Palette"
    IN  IF renamed /\ IsNone(section) THEN GenRaise(g, "TypeError")
        ELSE IF renamed /\ block_states_tag \notin section.keys THEN GenRaise(g, "KeyError")
        ELSE IF IsNone(section) \/ block_states_tag \notin section.keys
        THEN AirLoop(h, Air)
        ELSE
        LET c == section.c
            \* section[block_states_tag].value: the long array, or the value
            \* of the block_states compound, which is None
            states_is_none == renamed
            has_palette == IF renamed THEN palette_tag \in section.bs
                           ELSE palette_tag \in section.keys
            bits == Max(BitLength(c.P - 1), MinBits)
            stretches == ch.version < VERSION_20w17a
            per == WordBits \div bits
            state == IF stretches THEN (g.index * bits) \div WordBits
                     ELSE g.index \div per
            offset == IF stretches THEN (bits * g.index) % WordBits
                      ELSE (g.index % per) * bits
        IN  IF ~has_palette THEN GenRaise(h, "KeyError")
            ELSE IF states_is_none THEN GenRaise(h, "TypeError")
            ELSE IF ~InRange(NumWords(c), state) THEN GenRaise(h, "IndexError")
            ELSE
            LET data == ToUnsigned(StatesAt(c, Norm(NumWords(c), state)))
            IN  ModernLoop([h EXCEPT !.bits = bits, !.stretches = stretches,
                                     !.state = state,
                                     !.data = ShiftRight(data, offset),
                                     !.data_len = WordBits - offset])

\* a later next(): the rest of the loop body after the yield, then the
\* loop up to its next yield
GenResume(g) ==
    IF g.pc = "air" THEN AirLoop([g EXCEPT !.i = g.i + 1], g.out)
    ELSE IF g.pc = "legacy" THEN LegacyLoop([g EXCEPT !.index = g.index + 1])
    ELSE ModernLoop([g EXCEPT !.index = g.index + 1,
                              !.data = ShiftRight(g.data, g.bits),
                              !.data_len = g.data_len - g.bits])

(* ------------------------------- inputs -------------------------------- *)

\* content of a pre-flattening section
LegacyContent(add, pat) ==
    [P |-> 1, pat |-> pat, signed |-> FALSE, stretch |-> FALSE, add |-> add]

\* content of a section with a palette of P entries, packed as the writer
\* of version v packs it
ModernContent(v, P, pat, signed) ==
    [P |-> P, pat |-> pat, signed |-> signed, stretch |-> v < VERSION_20w17a,
     add |-> FALSE]

\* one data version of every era, and no DataVersion tag at all
LegacyVersions == {NoVersion, VERSION_17w47a - 1}
ModernVersions == {VERSION_17w47a, VERSION_20w17a, VERSION_21w39a, VERSION_21w43a}

\* root tags of every era, one content each
EraInputs ==
    {[version |-> v, hasSections |-> h, c |-> LegacyContent(TRUE, 1)] :
        v \in LegacyVersions, h \in BOOLEAN}
    \cup
    {[version |-> v, hasSections |-> h, c |-> ModernContent(v, 17, 1, TRUE)] :
        v \in ModernVersions, h \in BOOLEAN}

\* palette sizes at the edges of the index widths 4, 5, 8 and 9
PaletteSizes == {1, 2, 16, 17, 256, 257}

\* root tags of the two packing policies, every palette size and pattern,
\* words signed and unsigned
PackedInputs ==
    {[version |-> v, hasSections |-> TRUE, c |-> ModernContent(v, P, pat, sg)] :
        v \in {VERSION_17w47a, VERSION_20w17a}, P \in PaletteSizes,
        pat \in 1..NumPatterns, sg \in BOOLEAN}

\* section arguments: None, indices around the legal range, the tags of
\* the chunk's sections
SectionIndices == {-1, 0, 1, 15, 16, MaxSection}
SectionArgs(ch) ==
    {None} \cup {IntArg(i) : i \in SectionIndices}
           \cup {ch.data.sections[k] : k \in 1..Len(ch.data.sections)}

\* start indices: the first block, blocks whose index straddles two words
\* at widths 9 and 5, the last block
StartIndices == {0, 4039, 4044, SectionBlocks - 1}

\* coordinates around the legal ranges
XArgs == {-1, 0, 12, 15, 16}
ZArgs == {-1, 0, 7, 15, 16}
YArgs == {-1, 0, 3, 15, 16, 17, 255, 256}

\* layers of the section read block by block when decoding
DecodeYs == {0, 7, 15}

(* ---------------------------- state machine ---------------------------- *)

VARIABLES
    nbt,      \* the root tag the chunk is built from
    chunk,    \* the Chunk object
    call,     \* the query made on it
    result,   \* what get_section or get_block returned or raised
    locals,   \* the locals of get_block where it stopped
    gen       \* the generator stream_blocks returned

vars == <<nbt, chunk, call, result, locals, gen>>

NoCall ==
    [op |-> "none", x |-> 0, y |-> 0, z |-> 0, section |-> None,
     force_new |-> FALSE, index |-> 0]

Init ==
    /\ nbt \in EraInputs
    /\ chunk = Unbuilt
    /\ call = NoCall
    /\ result = None
    /\ locals = NoLocals
    /\ gen = NoGen

InitDecode ==
    /\ nbt \in PackedInputs
    /\ chunk = Unbuilt
    /\ call = NoCall
    /\ result = None
    /\ locals = NoLocals
    /\ gen = NoGen

\* chunk = Chunk(nbt)
Construct ==
    /\ chunk.status = "unbuilt"
    /\ chunk' = ChunkInit(nbt)
    /\ UNCHANGED <<nbt, call, result, locals, gen>>

Ready == chunk.status = "ok" /\ call.op = "none"

\* chunk.get_section(y)
GetSection(y) ==
    /\ call' = [NoCall EXCEPT !.op = "get_section", !.y = y]
    /\ result' = get_section(chunk, y)
    /\ UNCHANGED <<nbt, chunk, locals, gen>>

\* chunk.get_block(x, y, z, section, force_new)
GetBlock(x, y, z, section, force_new) ==
    /\ call' = [NoCall EXCEPT !.op = "get_block", !.x = x, !.y = y, !.z = z,
                              !.section = section, !.force_new = force_new]
    /\ LET r == get_block(chunk, x, y, z, section, force_new)
       IN  result' = r.res /\ locals' = r.loc
    /\ UNCHANGED <<nbt, chunk, gen>>

\* chunk.stream_blocks(index, section, force_new): no line of the body runs yet
StreamBlocks(index, section, force_new) ==
    /\ call' = [NoCall EXCEPT !.op = "stream_blocks", !.index = index,
                              !.section = section, !.force_new = force_new]
    /\ gen' = NewGen(index, section, force_new)
    /\ UNCHANGED <<nbt, chunk, result, locals>>

\* next(gen)
StreamNext ==
    /\ gen.pc \in {"created", "air", "legacy", "modern"}
    /\ gen' = IF gen.pc = "created" THEN GenFirst(chunk, gen) ELSE GenResume(gen)
    /\ UNCHANGED <<nbt, chunk, call, result, locals>>

CallGetSection ==
    /\ Ready
    /\ \E y \in SectionIndices : GetSection(y)

CallGetBlock ==
    /\ Ready
    /\ \E x \in XArgs, y \in YArgs, z \in ZArgs, s \in SectionArgs(chunk),
          f \in BOOLEAN : GetBlock(x, y, z, s, f)

CallStreamBlocks ==
    /\ Ready
    /\ \E k \in StartIndices, s \in SectionArgs(chunk), f \in BOOLEAN :
          StreamBlocks(k, s, f)

Next == Construct \/ CallGetSection \/ CallGetBlock \/ CallStreamBlocks \/ StreamNext

Spec == Init /\ [][Next]_vars

(* The decoding specification: sections of both packing policies, every    *)
(* palette size and pattern; every block of section 0 is read by get_block *)
(* and section 0 is streamed from its first block.                         *)

DecodeGetBlock ==
    /\ Ready
    /\ \E x \in 0..15, y \in DecodeYs, z \in 0..15 :
          GetBlock(x, y, z, chunk.data.sections[1], FALSE)

DecodeStreamBlocks ==
    /\ Ready
    /\ StreamBlocks(0, IntArg(0), FALSE)

NextDecode == Construct \/ DecodeGetBlock \/ DecodeStreamBlocks \/ StreamNext

SpecDecode == InitDecode /\ [][NextDecode]_vars

(* ------------------------------- claims -------------------------------- *)

Coord == 0..15

Yielded == gen.pc \in {"air", "legacy", "modern"}

IsAir(r) == r = Air \/ r = OldBlock(0, 0)

IsOutOfBounds(r) == r = Raise(OutOfBounds)

\* the argument is a section tag that holds block data
FilledTag(s) == s.kind = "section" /\ s.keys # {"Y"}

\* C1: for every era and every section holding blocks, the block that
\* get_block(x, y, z, section) returns is the value at position
\* y*256 + z*16 + x of stream_blocks(section=section) started at index 0,
\* and that stream runs to its 4096 values.
C1_GetBlockMatchesStream ==
    (/\ call.op = "stream_blocks" /\ gen.start = 0 /\ FilledTag(call.section)
     /\ gen.pc # "created")
    => /\ gen.pc # "raised"
       /\ gen.pc = "done" => gen.count = SectionBlocks
       /\ Yielded =>
            LET p == gen.count - 1
            IN  gen.out = get_block(chunk, p % 16, p \div 256, (p \div 16) % 16,
                                    call.section, call.force_new).res

\* the section index the stream's argument names resolves to no section
StreamsAbsent ==
    \/ IsNone(call.section) /\ IsNone(get_section(chunk, 0))
    \/ /\ IsInt(call.section) /\ call.section.i \in 0..15
       /\ IsNone(get_section(chunk, call.section.i))

\* C2: for every era, when the requested section is absent, get_block
\* returns air at every position and stream_blocks yields exactly 4096 air
\* values; neither raises.
C2_AbsentSectionIsAir ==
    /\ (/\ call.op = "get_block" /\ IsNone(call.section)
        /\ call.x \in Coord /\ call.z \in Coord /\ call.y \in 0..255
        /\ IsNone(get_section(chunk, call.y \div 16)))
       => IsAir(result)
    /\ (call.op = "stream_blocks" /\ gen.pc # "created" /\ StreamsAbsent)
       => /\ gen.pc # "raised"
          /\ Yielded => IsAir(gen.out)
          /\ gen.pc = "done" => gen.count = SectionBlocks

\* C3: building a Chunk from a root tag without DataVersion succeeds in the
\* oldest era: the working root is the Level child and the tile entities
\* are its TileEntities.
C3_NoVersionBuilds ==
    (nbt.version = NoVersion /\ chunk.status # "unbuilt")
    => /\ chunk.status = "ok"
       /\ chunk.root = "Level"
       /\ chunk.tile_entities = "TileEntities"

\* C4: get_block raises OutOfBoundsCoordinates whenever x or z is outside
\* 0..15, y is outside 0..255 with no section given, or y is outside 0..15
\* with a section tag given.
C4_OutOfRangeRaises ==
    (/\ call.op = "get_block"
     /\ \/ call.x \notin Coord
        \/ call.z \notin Coord
        \/ IsNone(call.section) /\ call.y \notin 0..255
        \/ call.section.kind = "section" /\ call.y \notin Coord)
    => IsOutOfBounds(result)

\* C5: the section index is bounded by 0..15 at both entry points: for s
\* outside 0..15 get_section(s) raises OutOfBoundsCoordinates and
\* stream_blocks(section=s) raises it before it yields anything; for s in
\* 0..15 neither raises it.
C5_SectionBound ==
    /\ call.op = "get_section"
       => (IsOutOfBounds(result) <=> call.y \notin 0..15)
    /\ (call.op = "stream_blocks" /\ IsInt(call.section) /\ gen.pc # "created")
       => IF call.section.i \notin 0..15
          THEN gen.pc = "raised" /\ gen.exc = OutOfBounds /\ gen.count = 0
          ELSE ~(gen.pc = "raised" /\ gen.exc = OutOfBounds)

\* stream_blocks(section=16) has raised OutOfBoundsCoordinates on its first
\* resumption
C5_Witness ==
    /\ call.op = "stream_blocks" /\ call.section = IntArg(16)
    /\ gen.pc = "raised" /\ gen.exc = OutOfBounds /\ gen.count = 0

\* C6: a section index is accepted where a section tag is: for i, x, y, z
\* in 0..15, get_block(x, y, z, section=i) returns what
\* get_block(x, y, z, section=get_section(i)) returns.
C6_IndexAsSection ==
    (/\ call.op = "get_block" /\ IsInt(call.section) /\ call.section.i \in 0..15
     /\ call.x \in Coord /\ call.y \in Coord /\ call.z \in Coord)
    => result = get_block(chunk, call.x, call.y, call.z,
                          get_section(chunk, call.section.i), call.force_new).res

\* position p of stream_blocks(index=0) on the section the generator reads:
\* air when it holds no blocks, the block of p in the legacy arrays, the
\* palette entry at the p-th packed index (C8)
ZeroStreamAt(p) ==
    IF gen.pc = "air" THEN gen.out
    ELSE IF gen.pc = "legacy" THEN LegacyBlock(gen.section, p, gen.force_new)
    ELSE from_palette(Idx(gen.section.c, p))

\* C7: index is the block to start from: stream_blocks(index=k) yields
\* exactly 4096 - k values, those of stream_blocks(index=0) after its first
\* k, on every section, present or absent.
C7_IndexIsStart ==
    (/\ call.op = "stream_blocks"
     /\ IsInt(call.section) => call.section.i \in 0..15)
    => /\ gen.count <= SectionBlocks - gen.start
       /\ gen.pc = "done" => gen.count = SectionBlocks - gen.start
       /\ Yielded => gen.out = ZeroStreamAt(gen.start + gen.count - 1)

\* C8: once stream_blocks has the word array and a palette of P entries,
\* under both packing policies, started at index 0 it yields 4096 values,
\* the i-th the palette entry at the i-th packed index, at width
\* max(4, bitLength(P - 1)), and reads no word past the last of the array.
C8_RoundTrip ==
    (call.op = "stream_blocks" /\ gen.start = 0 /\ gen.pc # "created")
    => /\ gen.pc \in {"modern", "done"}
       /\ gen.bits = Max(BitLength(nbt.c.P - 1), MinBits)
       /\ gen.state \in 0..(NumWords(nbt.c) - 1)
       /\ gen.pc = "done" => gen.count = SectionBlocks
       /\ gen.pc = "modern" =>
            /\ gen.index = gen.count - 1
            /\ gen.out = from_palette(Idx(nbt.c, gen.index))

\* a stretched section of 257 palette entries, its words signed, streamed
\* to the end
C8_Witness ==
    /\ call.op = "stream_blocks" /\ gen.pc = "done" /\ gen.count = SectionBlocks
    /\ gen.stretches /\ nbt.c.P = 257 /\ nbt.c.signed

\* C9: in the modern branch of get_block the index width is
\* max(4, bitLength(paletteSize - 1)), paletteSize the number of entries of
\* the section's palette.
C9_WidthFromPalette ==
    (call.op = "get_block" /\ ~IsLegacyEra(chunk.version) /\ locals.bits # 0)
    => locals.bits = Max(BitLength(nbt.c.P - 1), MinBits)

\* digit p of the long array of content c read as one little-endian digit
\* stream of unsigned 64-bit words
StreamDigit(c, b, p) == PackedDigit(c, b, p \div WordBits, p % WordBits)

\* the value of the n digits from p of that stream
RECURSIVE StreamSliceOf(_, _, _, _)
StreamSliceOf(c, b, p, n) ==
    IF n = 0 THEN 0
    ELSE StreamDigit(c, b, p) + 2 * StreamSliceOf(c, b, p + 1, n - 1)

StreamSlice(c, p, n) == StreamSliceOf(c, PackBits(c), p, n)

\* C10: the palette index get_block extracts at the width it uses is, with
\* stretching, digits [index*bits, index*bits + bits) of the array read as
\* one digit stream (across words w and w+1 when the index straddles
\* them); without stretching, the bits digits at offset
\* (index mod (64 div bits)) * bits of word index div (64 div bits); and
\* the same whether the words are stored signed or unsigned.
C10_Extraction ==
    (call.op = "get_block" /\ locals.reached)
    => LET c == nbt.c
           b == locals.bits
           i == locals.index
           stretches == chunk.version < VERSION_20w17a
           per == WordBits \div b
       IN  /\ locals.palette_id =
                IF stretches THEN StreamSlice(c, i * b, b)
                ELSE StreamSlice(c, (i \div per) * WordBits + (i % per) * b, b)
           /\ locals.palette_id =
                ExtractPaletteId([c EXCEPT !.signed = ~c.signed], b, i,
                                 stretches).palette_id

\* an index straddling two words, the first stored as a negative value
C10_Witness ==
    /\ call.op = "get_block" /\ locals.reached
    /\ chunk.version < VERSION_20w17a
    /\ WordBits - ((locals.bits * locals.index) % WordBits) < locals.bits
    /\ StatesAt(nbt.c, locals.state).neg

====
